---- MODULE Spec2Model ----
(***************************************************************************)
(* Model of lib/aff4_objects/cronjobs.py: the cron job registry            *)
(* (CronManager.ScheduleFlow / EnableJob / DisableJob), the lease loop     *)
(* CronManager.RunOnce, the per-job state machine CronJob.Run with         *)
(* IsRunning, KillOldFlows, StopCurrentRun and DueToRun, and the worker    *)
(* thread CronWorker._RunLoop with its bootstrap ScheduleSystemCronFlows   *)
(* and GetStartTime.                                                       *)
(*                                                                         *)
(* Instants and durations are whole seconds.  The data store, its lease    *)
(* (aff4.FACTORY.OpenWithLock) and the flow engine (flow.GRRFlow) are not  *)
(* part of cronjobs.py; they are modelled as spec.md describes them.       *)
(***************************************************************************)
EXTENDS Integers, Sequences, FiniteSets, TLC

\* ------------------------------------------------------------- bounds
\* Flows the engine can start in one behaviour.
MaxFlows == 2
\* Last instant of the clock.
MaxTime == 600
\* Clock grain: the clock advances by TickLen seconds at a time.
TickLen == 300
\* Exceptions the flow engine raises in one behaviour.
MaxErrors == 1
\* Largest value utils.PRNG.GetUShort returns here (of 0..65535).
MaxUid == 1

\* --------------------------------------------------- program constants
\* lease_time=600 of RunOnce's OpenWithLock.
LeaseTime == 600

\* Python's None for an RDFDatetime attribute that was never set.
None == -1
\* No flow URN (CURRENT_FLOW_URN unset); flows are numbered from 1.
NoFlow == 0

\* CreateCronJobFlowArgs values of the registered jobs; a start_time or a
\* lifetime of 0 is the unset (falsy) value.
ArgsSet ==
  [flow_name : {"F"}, periodicity : {300}, lifetime : {0, 300},
   start_time : {0}, allow_overruns : BOOLEAN]

NoArgs == [flow_name |-> "", periodicity |-> 0, lifetime |-> 0,
           start_time |-> 0, allow_overruns |-> FALSE]

\* A CronJob object's attributes; exists = FALSE: no object under that URN.
NoJob ==
  [exists |-> FALSE, cron_args |-> NoArgs, disabled |-> FALSE,
   current_flow_urn |-> NoFlow, last_run_time |-> None,
   last_run_status |-> "NONE"]

VARIABLES
  now,     \* the clock, in seconds
  store,   \* data store: job name -> CronJob attributes
  lock,    \* data store: job name -> [holder, expires] of the lease
  flows,   \* flow engine: sequence of [job, state]; a flow's URN is its index
  stats,   \* stats.STATS counters
  pc,      \* per worker: position in RunOnce / Run
  force,   \* per worker: the force argument of its RunOnce
  urns,    \* per worker: the urns list of its RunOnce
  idx,     \* per worker: index of the for loop over urns
  obj,     \* per worker: the CronJob object it opened (attributes as read)
  res,     \* per worker: outcome of each job of the pass processed so far
  call,    \* the last ScheduleFlow call: its arguments and the URN returned
  config,  \* flow.GRRFlow.classes and Cron.enabled_system_jobs
  loop     \* per worker: the state of its CronWorker._RunLoop thread

vars ==
  <<now, store, lock, flows, stats, pc, force, urns, idx, obj, res, call,
    config, loop>>

workerVars == <<pc, force, urns, idx, obj, res>>

\* The callers of RunOnce (cron worker threads, ManageCronJobFlow) and the
\* job names of a behaviour.
Workers == DOMAIN pc

Jobs == DOMAIN store

\* ------------------------------------------------------------ helpers
\* rdfvalue.Duration.Expiry: the instant a duration after base_time.
Expiry(duration, base_time) == base_time + duration

\* The job a worker's for loop is at.
CurJob(w) == urns[w][idx[w]]

\* flow.GRRFlow state of a flow URN: "RUNNING", "TERMINATED" or "ERROR", or
\* "DELETED" when the URN no longer opens as a flow.
FlowState(h) == flows[h].state

\* ----------------------------------------------------------- CronJob
\* DueToRun with now >= expiry in place of now > expiry.
DueToRunAtExpiry(o, t) ==
  IF o.disabled THEN FALSE
  ELSE IF o.last_run_time = None
          \/ t >= Expiry(o.cron_args.periodicity, o.last_run_time)
       THEN IF t < o.cron_args.start_time THEN FALSE
            ELSE IF o.cron_args.allow_overruns THEN TRUE
            ELSE IF o.current_flow_urn = NoFlow THEN TRUE
            ELSE FALSE
       ELSE FALSE

\* DueToRun without its test of DISABLED.
DueToRunIgnoresDisabled(o, t) ==
  IF o.last_run_time = None
     \/ t > Expiry(o.cron_args.periodicity, o.last_run_time)
  THEN IF t < o.cron_args.start_time THEN FALSE
       ELSE IF o.cron_args.allow_overruns THEN TRUE
       ELSE IF o.current_flow_urn = NoFlow THEN TRUE
       ELSE FALSE
  ELSE FALSE

\* CronJob.DueToRun on the attributes o of an opened job at instant t.
DueToRun(o, t) ==
  IF o.disabled THEN FALSE
  ELSE IF o.last_run_time = None
          \/ t > Expiry(o.cron_args.periodicity, o.last_run_time)
       THEN IF t < o.cron_args.start_time THEN FALSE
            ELSE IF o.cron_args.allow_overruns THEN TRUE
            ELSE IF o.current_flow_urn = NoFlow THEN TRUE
            ELSE FALSE
       ELSE FALSE

\* CronJob.IsRunning raises and handles InstantiationError: a flow URN is set
\* and does not open as a flow.
NotAFlow(o) ==
  /\ o.current_flow_urn # NoFlow
  /\ FlowState(o.current_flow_urn) = "DELETED"

\* IsRunning answering true for every set flow URN.
IsRunningHandleSet(o) == o.current_flow_urn # NoFlow

\* CronJob.IsRunning, its result: a flow URN is set, opens as a flow and the
\* flow's runner is RUNNING.
IsRunning(o) ==
  /\ o.current_flow_urn # NoFlow
  /\ FlowState(o.current_flow_urn) = "RUNNING"

\* CronJob.IsRunning, its effect on the attributes: a flow URN that does not
\* open as a flow is deleted.
AfterIsRunning(o) ==
  IF NotAFlow(o) THEN [o EXCEPT !.current_flow_urn = NoFlow] ELSE o

\* KillOldFlows with elapsed >= lifetime in place of elapsed > lifetime.
LifetimeExceededAtEqual(o, t) ==
  /\ IsRunning(o)
  /\ o.cron_args.lifetime # 0
  /\ t - o.last_run_time >= o.cron_args.lifetime

\* KillOldFlows that never finds the lifetime exceeded.
LifetimeExceededNever(o, t) == FALSE

\* The test of CronJob.KillOldFlows: the job is running and its lifetime is
\* set and elapsed = now - last_run_time exceeds it.
LifetimeExceeded(o, t) ==
  /\ IsRunning(o)
  /\ o.cron_args.lifetime # 0
  /\ t - o.last_run_time > o.cron_args.lifetime

\* CronJob.StopCurrentRun on attributes o: TIMEOUT status, flow URN deleted.
StopCurrentRun(o) ==
  IF o.current_flow_urn # NoFlow
  THEN [o EXCEPT !.last_run_status = "TIMEOUT", !.current_flow_urn = NoFlow]
  ELSE o

\* flow.GRRFlow.TerminateFlow(h, force=True): the flow is ended with an error.
TerminateFlow(h) == [flows EXCEPT ![h].state = "ERROR"]

\* Flush of a CronJob object o opened on job j: the attributes in attrs, which
\* the object set or deleted since it was read, are written to the data store;
\* every other attribute of the stored record is left as it is.
Flush(j, o, attrs) ==
  [store EXCEPT ![j] =
     [a \in DOMAIN NoJob |-> IF a \in attrs THEN o[a] ELSE @[a]]]

\* Run's update for a finished flow with the test of the ERROR state lost.
ReconciledAlwaysOK(o, st) ==
  [o EXCEPT !.last_run_status = "OK", !.current_flow_urn = NoFlow]

\* The attributes after Run's update for a finished flow of state st.
Reconciled(o, st) ==
  [o EXCEPT !.last_run_status = IF st = "ERROR" THEN "ERROR" ELSE "OK",
            !.current_flow_urn = NoFlow]

\* The attributes after Run has started flow h at instant t.
Started(o, h, t) ==
  [o EXCEPT !.current_flow_urn = h, !.last_run_time = t]

\* ------------------------------------------------------- CronManager
\* ScheduleFlow writing the call's cron_args whatever is stored.
ScheduleFlowRecordOverwrites(old, cron_args, disabled) ==
  [old EXCEPT !.exists = TRUE, !.cron_args = cron_args,
              !.disabled = disabled]

\* ScheduleFlow creating the record anew: what the runs left is lost.
ScheduleFlowRecordResetsRun(old, cron_args, disabled) ==
  [NoJob EXCEPT !.exists = TRUE, !.cron_args = cron_args,
                !.disabled = disabled]

\* CronManager.ScheduleFlow: the stored record after the call.  An existing,
\* set start_time is kept; CRON_ARGS and DISABLED are written when they differ
\* from what is stored.
ScheduleFlowRecord(old, cron_args, disabled) ==
  LET existing == old.cron_args
      args == IF old.exists /\ existing.start_time # 0
              THEN [cron_args EXCEPT !.start_time = existing.start_time]
              ELSE cron_args
  IN  [old EXCEPT !.exists = TRUE,
                  !.cron_args = IF ~old.exists \/ args # existing
                                THEN args ELSE @,
                  !.disabled = IF disabled # @ THEN disabled ELSE @]

\* ScheduleFlow's autogenerated name: "%s_%s" % (flow_name, uid).
JobName(flow_name, uid) == flow_name \o "_" \o ToString(uid)

\* CronManager.ListJobs: the URNs of the jobs in the store, in listing order.
JobOrder == <<"A", "B">>

ListJobs == SelectSeq(JobOrder, LAMBDA j : j \in Jobs /\ store[j].exists)

\* aff4.FACTORY.OpenWithLock(blocking=False): the lease on job j can be taken
\* at instant t when nobody holds it or the holder's lease has run out.
LockFree(j, t) == lock[j].holder = 0 \/ t >= lock[j].expires

NoLock == [holder |-> 0, expires |-> 0]

\* A job as ScheduleFlow registers it.
Registered(a, d) ==
  [NoJob EXCEPT !.exists = TRUE, !.cron_args = a, !.disabled = d]

\* --------------------------------------------------------------- Init
\* No ScheduleFlow call made yet.
NoCall == [named |-> TRUE, args |-> NoArgs, disabled |-> FALSE, urn |-> ""]

\* The data store and the flow engine around the job records in store: no
\* lease held, no flow started, no counter incremented.
InitStore ==
  /\ lock = [j \in Jobs |-> NoLock]
  /\ flows = <<>>
  /\ stats = [cron_internal_error |-> 0,
              cron_job_failure |-> [j \in Jobs |-> 0],
              cron_job_timeout |-> [j \in Jobs |-> 0]]
  /\ call = NoCall

\* Every worker of W is outside RunOnce.
InitWorkers(W) ==
  /\ pc = [w \in W |-> "idle"]
  /\ force = [w \in W |-> FALSE]
  /\ urns = [w \in W |-> <<>>]
  /\ idx = [w \in W |-> 0]
  /\ res = [w \in W |-> <<>>]

\* No flow class is registered and nothing is configured.
NoConfig == [classes |-> <<>>, enabled |-> <<>>]

\* The caller of RunOnce is not a CronWorker thread.
NoLoop == [phase |-> "off", next |-> 0, master |-> FALSE, failed |-> FALSE]

InitRest(W) ==
  /\ now = 0
  /\ InitStore
  /\ InitWorkers(W)
  /\ obj = [w \in W |-> NoJob]
  /\ config = NoConfig
  /\ loop = [w \in W |-> NoLoop]

\* Two callers of RunOnce and one job, registered at worker startup
\* (ScheduleSystemCronFlows) with any of the argument values.
Init ==
  /\ store \in [{"A"} -> {Registered(a, d) : a \in ArgsSet, d \in BOOLEAN}]
  /\ InitRest({1, 2})

\* The arguments offered to ScheduleFlow in the registry specification.
SchedArgs ==
  [flow_name : {"F"}, periodicity : {300, 600}, lifetime : {0},
   start_time : {0, 300, 600}, allow_overruns : {FALSE}]

\* The job names callers give to ScheduleFlow.
GivenNames == {"A"}

\* The registry alone: no job registered yet; names are given by the caller
\* or autogenerated.
InitSched ==
  /\ store = [n \in GivenNames \cup {JobName("F", u) : u \in 0..MaxUid}
                |-> NoJob]
  /\ InitRest({1})

\* The inputs of DueToRun: every combination of the attributes it reads.
DueRecords ==
  {[NoJob EXCEPT !.exists = TRUE, !.cron_args = a, !.disabled = d,
                 !.current_flow_urn = h, !.last_run_time = l] :
     a \in [flow_name : {"F"}, periodicity : {300, 600}, lifetime : {0},
            start_time : {0, 300, 600}, allow_overruns : BOOLEAN],
     d \in BOOLEAN, h \in {NoFlow, 1}, l \in {None, 0, 300}}

\* DueToRun as a function: an opened job with any attributes at any instant.
InitDue ==
  /\ store = [j \in {"A"} |-> NoJob]
  /\ now \in {0, 300, 600, 900}
  /\ obj \in [{1} -> DueRecords]
  /\ InitStore
  /\ InitWorkers({1})
  /\ config = NoConfig
  /\ loop = [w \in {1} |-> NoLoop]

\* The arguments of the jobs of the two-job specification.
PassArgs == [flow_name |-> "F", periodicity |-> 300, lifetime |-> 300,
             start_time |-> 0, allow_overruns |-> FALSE]

\* Two callers of RunOnce and two enabled jobs: RunOnce passes over a list.
InitPass ==
  /\ store = [j \in {"A", "B"} |-> Registered(PassArgs, FALSE)]
  /\ InitRest({1, 2})

\* ------------------------------------------------- registry operations
\* CronManager.ScheduleFlow(cron_args, job_name, disabled): the job's record
\* is created or updated and its URN returned.  named tells whether the
\* caller gave job_name.
ScheduleFlow(cron_args, job_name, named, disabled) ==
  /\ store' = [store EXCEPT
                 ![job_name] = ScheduleFlowRecord(@, cron_args, disabled)]
  /\ call' = [named |-> named, args |-> cron_args, disabled |-> disabled,
              urn |-> job_name]
  /\ UNCHANGED <<now, lock, flows, stats, workerVars, config>>

\* ScheduleFlow called with a job_name (system cron jobs).
ScheduleNamed ==
  \E a \in SchedArgs, n \in GivenNames, d \in BOOLEAN :
    ScheduleFlow(a, n, TRUE, d) /\ UNCHANGED loop

\* ScheduleFlow called without job_name: uid = utils.PRNG.GetUShort(), the
\* name is made of the flow name and uid.
ScheduleUnnamed ==
  \E a \in SchedArgs, uid \in 0..MaxUid, d \in BOOLEAN :
    ScheduleFlow(a, JobName(a.flow_name, uid), FALSE, d) /\ UNCHANGED loop

\* CronManager.EnableJob.
EnableJob ==
  \E j \in Jobs :
    /\ store[j].exists
    /\ store' = [store EXCEPT ![j].disabled = FALSE]
    /\ UNCHANGED <<now, lock, flows, stats, workerVars, call, config, loop>>

\* CronManager.DisableJob.
DisableJob ==
  \E j \in Jobs :
    /\ store[j].exists
    /\ store' = [store EXCEPT ![j].disabled = TRUE]
    /\ UNCHANGED <<now, lock, flows, stats, workerVars, call, config, loop>>

\* ------------------------------------------------------------- RunOnce
\* CronManager.RunOnce(force=f, urns=u) entered by worker w.
RunOnce(w, f, u) ==
  /\ pc[w] = "idle"
  /\ pc' = [pc EXCEPT ![w] = "open"]
  /\ force' = [force EXCEPT ![w] = f]
  /\ urns' = [urns EXCEPT ![w] = u]
  /\ idx' = [idx EXCEPT ![w] = 1]
  /\ res' = [res EXCEPT ![w] = <<>>]
  /\ UNCHANGED <<now, store, lock, flows, stats, obj, call, config>>

\* A tick of CronWorker._RunLoop: RunOnce over all jobs, not forced.
WorkerTick ==
  \E w \in Workers : RunOnce(w, FALSE, ListJobs) /\ UNCHANGED loop

\* ManageCronJobFlow.Start with action RUN: RunOnce(urns=[urn], force=True).
ForceRun ==
  \E w \in Workers, j \in Jobs :
    /\ store[j].exists
    /\ RunOnce(w, TRUE, <<j>>)
    /\ UNCHANGED loop

\* The for loop of RunOnce is over: RunOnce returns.
RunOnceReturn ==
  \E w \in Workers :
    /\ pc[w] = "open"
    /\ idx[w] > Len(urns[w])
    /\ pc' = [pc EXCEPT ![w] = "idle"]
    /\ force' = [force EXCEPT ![w] = FALSE]
    /\ urns' = [urns EXCEPT ![w] = <<>>]
    /\ idx' = [idx EXCEPT ![w] = 0]
    /\ res' = [res EXCEPT ![w] = <<>>]
    /\ UNCHANGED <<now, store, lock, flows, stats, obj, call, config, loop>>

\* OpenWithLock succeeds: the worker holds the lease for LeaseTime seconds and
\* has read the job's attributes.
OpenWithLock(w) ==
  /\ pc[w] = "open"
  /\ idx[w] <= Len(urns[w])
  /\ LockFree(CurJob(w), now)
  /\ lock' = [lock EXCEPT ![CurJob(w)] =
                [holder |-> w, expires |-> now + LeaseTime]]
  /\ obj' = [obj EXCEPT ![w] = store[CurJob(w)]]
  /\ pc' = [pc EXCEPT ![w] = "kill"]
  /\ UNCHANGED <<now, store, flows, stats, force, urns, idx, res, call, config,
                 loop>>

\* RunOnce counting a LockError as an internal error instead of passing.
LockErrorCounted(w) ==
  /\ pc[w] = "open"
  /\ idx[w] <= Len(urns[w])
  /\ ~LockFree(CurJob(w), now)
  /\ stats' = [stats EXCEPT !.cron_internal_error = @ + 1]
  /\ res' = [res EXCEPT ![w] = Append(@, "skipped")]
  /\ idx' = [idx EXCEPT ![w] = @ + 1]
  /\ UNCHANGED <<now, store, lock, flows, pc, force, urns, obj, call, config,
                 loop>>

\* OpenWithLock raises LockError: except aff4.LockError: pass, next URN.
LockError(w) ==
  /\ pc[w] = "open"
  /\ idx[w] <= Len(urns[w])
  /\ ~LockFree(CurJob(w), now)
  /\ res' = [res EXCEPT ![w] = Append(@, "skipped")]
  /\ idx' = [idx EXCEPT ![w] = @ + 1]
  /\ UNCHANGED <<now, store, lock, flows, stats, pc, force, urns, obj, call,
                 config, loop>>

\* Run has returned or raised with the given outcome: the with block is left
\* (the object is closed, the lease released if still held) and the for loop
\* goes to the next URN.
Close(w, outcome) ==
  /\ lock' = [lock EXCEPT ![CurJob(w)] =
                IF @.holder = w THEN NoLock ELSE @]
  /\ obj' = [obj EXCEPT ![w] = NoJob]
  /\ res' = [res EXCEPT ![w] = Append(@, outcome)]
  /\ idx' = [idx EXCEPT ![w] = @ + 1]
  /\ pc' = [pc EXCEPT ![w] = "open"]

\* ----------------------------------------------------------- CronJob.Run
\* RunOnce without the try around cron_job.Run: the exception leaves the for
\* loop and RunOnce.
RunRaisesAborts(w) ==
  /\ stats.cron_internal_error < MaxErrors
  /\ stats' = [stats EXCEPT !.cron_internal_error = @ + 1]
  /\ lock' = [lock EXCEPT ![CurJob(w)] = IF @.holder = w THEN NoLock ELSE @]
  /\ obj' = [obj EXCEPT ![w] = NoJob]
  /\ res' = [res EXCEPT ![w] = Append(@, "error")]
  /\ idx' = [idx EXCEPT ![w] = 0]
  /\ pc' = [pc EXCEPT ![w] = "idle"]

\* The except clause of RunOnce around cron_job.Run: the exception is logged
\* and cron_internal_error incremented; the with block is then left.
RunRaises(w) ==
  /\ stats.cron_internal_error < MaxErrors
  /\ stats' = [stats EXCEPT !.cron_internal_error = @ + 1]
  /\ Close(w, "error")

\* Run, step 1: if self.KillOldFlows(): return.
KillOldFlows(w) ==
  /\ pc[w] = "kill"
  /\ LET j == CurJob(w)
         o == obj[w]
     IN  IF LifetimeExceeded(o, now)
         THEN /\ flows' = TerminateFlow(o.current_flow_urn)
              /\ store' = Flush(j, StopCurrentRun(o),
                                {"last_run_status", "current_flow_urn"})
              /\ stats' = [stats EXCEPT !.cron_job_timeout[j] = @ + 1]
              /\ Close(w, "timeout")
         ELSE /\ pc' = [pc EXCEPT ![w] = "reconcile"]
              /\ obj' = [obj EXCEPT ![w] = AfterIsRunning(o)]
              /\ store' = IF NotAFlow(o)
                          THEN Flush(j, AfterIsRunning(o),
                                     {"current_flow_urn"})
                          ELSE store
              /\ UNCHANGED <<lock, flows, stats, idx, res>>
  /\ UNCHANGED <<now, force, urns, call, config, loop>>

\* Run, step 2: if the current flow has finished, update our state.  A URN
\* that does not open as a flow has no runner: GetRunner raises.
Reconcile(w) ==
  /\ pc[w] = "reconcile"
  /\ LET j == CurJob(w)
         o == obj[w]
         h == o.current_flow_urn
     IN  IF NotAFlow(o)
         THEN /\ RunRaises(w)
              /\ UNCHANGED store
         ELSE /\ IF h # NoFlow /\ FlowState(h) # "RUNNING"
                 THEN /\ obj' = [obj EXCEPT ![w] = Reconciled(o, FlowState(h))]
                      /\ store' =
                           Flush(j, Reconciled(o, FlowState(h)),
                                 {"last_run_status", "current_flow_urn"})
                      /\ stats' =
                           IF FlowState(h) = "ERROR"
                           THEN [stats EXCEPT !.cron_job_failure[j] = @ + 1]
                           ELSE stats
                 ELSE UNCHANGED <<store, stats, obj>>
              /\ pc' = [pc EXCEPT ![w] = "due"]
              /\ UNCHANGED <<lock, idx, res>>
  /\ UNCHANGED <<now, flows, force, urns, call, config, loop>>

\* Run's gate with force ignored: if not self.DueToRun(): return.
DueCheckIgnoresForce(w) ==
  /\ pc[w] = "due"
  /\ IF ~DueToRun(obj[w], now)
     THEN Close(w, "notdue")
     ELSE /\ pc' = [pc EXCEPT ![w] = "start"]
          /\ UNCHANGED <<lock, idx, obj, res>>
  /\ UNCHANGED <<now, store, flows, stats, force, urns, call, config, loop>>

\* Run, step 3: if not force and not self.DueToRun(): return.
DueCheck(w) ==
  /\ pc[w] = "due"
  /\ IF ~force[w] /\ ~DueToRun(obj[w], now)
     THEN Close(w, "notdue")
     ELSE /\ pc' = [pc EXCEPT ![w] = "start"]
          /\ UNCHANGED <<lock, idx, obj, res>>
  /\ UNCHANGED <<now, store, flows, stats, force, urns, call, config, loop>>

\* Run, step 4: StartFlow returns the new flow's URN; CURRENT_FLOW_URN and
\* LAST_RUN_TIME are set and flushed.
StartRun(w) ==
  /\ pc[w] = "start"
  /\ Len(flows) < MaxFlows
  /\ LET j == CurJob(w)
         h == Len(flows) + 1
     IN  /\ flows' = Append(flows, [job |-> j, state |-> "RUNNING"])
         /\ store' = Flush(j, Started(obj[w], h, now),
                           {"current_flow_urn", "last_run_time"})
  /\ Close(w, "started")
  /\ UNCHANGED <<now, stats, force, urns, call, config, loop>>

\* Run, step 4, StartFlow raises: nothing is set, the exception reaches
\* RunOnce.
StartRaises(w) ==
  /\ pc[w] = "start"
  /\ RunRaises(w)
  /\ UNCHANGED <<now, store, flows, force, urns, call, config, loop>>

\* ------------------------------------------------------- environment
\* A running flow ends by itself, successfully or with an error.
FlowEnds ==
  \E h \in 1..Len(flows), st \in {"TERMINATED", "ERROR"} :
    /\ FlowState(h) = "RUNNING"
    /\ flows' = [flows EXCEPT ![h].state = st]
    /\ UNCHANGED <<now, store, lock, stats, workerVars, call, config, loop>>

\* Time passes.
Advance ==
  /\ now + TickLen <= MaxTime
  /\ now' = now + TickLen
  /\ UNCHANGED <<store, lock, flows, stats, workerVars, call, config, loop>>

\* The steps of the workers inside RunOnce.
TakeLease == \E w \in Workers : OpenWithLock(w)

SkipLocked == \E w \in Workers : LockError(w)

RunKillOldFlows == \E w \in Workers : KillOldFlows(w)

RunReconcile == \E w \in Workers : Reconcile(w)

RunDueCheck == \E w \in Workers : DueCheck(w)

RunStart == \E w \in Workers : StartRun(w)

RunStartRaises == \E w \in Workers : StartRaises(w)

\* One step of a worker that is inside RunOnce.
WorkerStep ==
  \/ RunOnceReturn
  \/ TakeLease
  \/ SkipLocked
  \/ RunKillOldFlows
  \/ RunReconcile
  \/ RunDueCheck
  \/ RunStart
  \/ RunStartRaises

Next ==
  \/ EnableJob
  \/ DisableJob
  \/ WorkerTick
  \/ ForceRun
  \/ WorkerStep
  \/ FlowEnds
  \/ Advance

Spec == Init /\ [][Next]_vars

\* RunOnce passes over two jobs; the jobs' registration does not change.
NextPass ==
  \/ WorkerTick
  \/ WorkerStep
  \/ FlowEnds
  \/ Advance

SpecPass == InitPass /\ [][NextPass]_vars

\* The registry: ScheduleFlow calls with and without a job name.
NextSched ==
  \/ ScheduleNamed
  \/ ScheduleUnnamed

SpecSched == InitSched /\ [][NextSched]_vars

\* DueToRun is called on the opened job at the current instant.
DueToRunCall ==
  /\ pc[1] = "idle"
  /\ pc' = [pc EXCEPT ![1] = "called"]
  /\ res' = [res EXCEPT ![1] =
               <<IF DueToRun(obj[1], now) THEN "due" ELSE "notdue">>]
  /\ UNCHANGED <<now, store, lock, flows, stats, force, urns, idx, obj, call,
                 config, loop>>

NextDue == DueToRunCall

SpecDue == InitDue /\ [][NextDue]_vars

\* ------------------------------------------------------- CronWorker
\* Largest frequency of a class whose start time is randomized.
MaxWindow == 3

\* The order in which flow.GRRFlow.classes.items() lists the classes.
ClassOrder == <<"A", "B", "N">>

\* A flow class that inherits from SystemCronFlow, with its class attributes.
SystemCronFlow(frequency, lifetime, randomization) ==
  [system |-> TRUE, frequency |-> frequency, lifetime |-> lifetime,
   start_time_randomization |-> randomization]

\* A flow class that does not inherit from SystemCronFlow.
OtherFlow ==
  [system |-> FALSE, frequency |-> 0, lifetime |-> 0,
   start_time_randomization |-> FALSE]

\* Settings of Cron.enabled_system_jobs: "Z" names no flow class, "N" names a
\* flow class that is not a SystemCronFlow.
EnabledLists ==
  {<<>>, <<"A">>, <<"B">>, <<"A", "B">>, <<"Z">>, <<"A", "Z">>, <<"N">>,
   <<"B", "N">>}

\* GetStartTime ignoring start_time_randomization.
GetStartTimeAlwaysRandom(cron_cls, t) == t..(t + cron_cls.frequency)

\* GetStartTime(cron_cls) at instant t: the set of the values it can return.
\* random.randint(a, b) returns any integer N with a <= N <= b.
GetStartTime(cron_cls, t) ==
  IF ~cron_cls.start_time_randomization
  THEN {t}
  ELSE t..(t + cron_cls.frequency)

\* The first loop of ScheduleSystemCronFlows passes: every enabled name is a
\* flow class (else KeyError) that inherits from SystemCronFlow (else
\* ValueError).
EnabledAreSystemCronFlows ==
  \A i \in 1..Len(config.enabled) :
    /\ config.enabled[i] \in DOMAIN config.classes
    /\ config.classes[config.enabled[i]].system

\* The names of Cron.enabled_system_jobs.
EnabledNames == {config.enabled[i] : i \in 1..Len(config.enabled)}

\* A CronWorker thread that has not yet run ScheduleSystemCronFlows.
BootLoop == [phase |-> "boot", next |-> 0, master |-> FALSE, failed |-> FALSE]

\* The bootstrap alone: the classes have any frequency up to MaxWindow and
\* randomize their start time or not; no job is registered.
InitBoot ==
  /\ now \in {0, TickLen}
  /\ store = [j \in {"A", "B"} |-> NoJob]
  /\ config \in
       [classes :
          {[n \in {"A", "B", "N"} |->
              IF n = "A" THEN SystemCronFlow(f, TickLen, ra)
              ELSE IF n = "B" THEN SystemCronFlow(MaxWindow, 0, rb)
              ELSE OtherFlow] :
             f \in 1..MaxWindow, ra \in BOOLEAN, rb \in BOOLEAN},
        enabled : EnabledLists]
  /\ InitStore
  /\ InitWorkers({1})
  /\ obj = [w \in {1} |-> NoJob]
  /\ loop = [w \in {1} |-> BootLoop]

\* One CronWorker thread from its start: two system cron classes that do not
\* randomize their start time; job A may be registered already, by an
\* earlier start.
InitLoop ==
  /\ now = 0
  /\ store \in
       {[j \in {"A", "B"} |-> NoJob],
        [j \in {"A", "B"} |->
           IF j = "A"
           THEN Registered([flow_name |-> "A", periodicity |-> TickLen,
                            lifetime |-> TickLen, start_time |-> 0,
                            allow_overruns |-> FALSE], TRUE)
           ELSE NoJob]}
  /\ config \in
       [classes :
          {[n \in {"A", "B", "N"} |->
              IF n = "A" THEN SystemCronFlow(TickLen, TickLen, FALSE)
              ELSE IF n = "B" THEN SystemCronFlow(TickLen, 0, FALSE)
              ELSE OtherFlow]},
        enabled : EnabledLists]
  /\ InitStore
  /\ InitWorkers({1})
  /\ obj = [w \in {1} |-> NoJob]
  /\ loop = [w \in {1} |-> BootLoop]

\* ScheduleSystemCronFlows without its first loop.
BootValidateAccepts(w) ==
  /\ loop[w].phase = "boot"
  /\ loop' = [loop EXCEPT ![w].phase = "schedule", ![w].next = 1]
  /\ UNCHANGED <<now, store, lock, flows, stats, workerVars, call, config>>

\* _RunLoop calls ScheduleSystemCronFlows, its first loop: an enabled name
\* that is no SystemCronFlow raises, which ends the thread.
BootValidate(w) ==
  /\ loop[w].phase = "boot"
  /\ loop' = IF EnabledAreSystemCronFlows
             THEN [loop EXCEPT ![w].phase = "schedule", ![w].next = 1]
             ELSE [loop EXCEPT ![w].phase = "dead"]
  /\ UNCHANGED <<now, store, lock, flows, stats, workerVars, call, config>>

\* ScheduleSystemCronFlows, one turn of its second loop: a SystemCronFlow
\* class is scheduled under its name; after the last class the while loop of
\* _RunLoop begins.
BootSchedule(w) ==
  /\ loop[w].phase = "schedule"
  /\ LET name == ClassOrder[loop[w].next]
         cls == config.classes[name]
     IN  /\ IF cls.system
            THEN \E start_time \in GetStartTime(cls, now) :
                   ScheduleFlow([flow_name |-> name,
                                 periodicity |-> cls.frequency,
                                 lifetime |-> cls.lifetime,
                                 start_time |-> start_time,
                                 allow_overruns |-> FALSE],
                                name, TRUE, name \notin EnabledNames)
            ELSE UNCHANGED <<now, store, lock, flows, stats, workerVars,
                             call, config>>
         /\ loop' = IF loop[w].next < Len(ClassOrder)
                    THEN [loop EXCEPT ![w].next = @ + 1]
                    ELSE [loop EXCEPT ![w].phase = "tick", ![w].next = 0]

\* _RunLoop running RunOnce whether or not IsMaster() is true.
LoopTickIgnoresMaster(w) ==
  /\ loop[w].phase = "tick"
  /\ pc[w] = "idle"
  /\ \E m \in BOOLEAN :
       /\ loop' = [loop EXCEPT ![w].phase = "run", ![w].master = m,
                               ![w].failed = FALSE]
       /\ RunOnce(w, FALSE, ListJobs)

\* _RunLoop, the top of the while loop: IsMaster() answers m; a master calls
\* RunOnce, any other worker goes to sleep.
LoopTick(w) ==
  /\ loop[w].phase = "tick"
  /\ pc[w] = "idle"
  /\ \E m \in BOOLEAN :
       IF m
       THEN /\ loop' = [loop EXCEPT ![w].phase = "run", ![w].master = TRUE,
                                    ![w].failed = FALSE]
            /\ RunOnce(w, FALSE, ListJobs)
       ELSE /\ loop' = [loop EXCEPT ![w].phase = "sleep", ![w].master = FALSE,
                                    ![w].failed = FALSE]
            /\ UNCHANGED <<now, store, lock, flows, stats, workerVars, call,
                           config>>

\* _RunLoop: time.sleep(self.sleep) is over, after RunOnce has returned or
\* raised or after a tick that was not master's.
LoopWake(w) ==
  /\ \/ loop[w].phase = "sleep"
     \/ loop[w].phase = "run" /\ pc[w] = "idle"
  /\ loop' = [loop EXCEPT ![w].phase = "tick"]
  /\ UNCHANGED <<now, store, lock, flows, stats, workerVars, call, config>>

\* An exception of OpenWithLock that ends the CronWorker thread.
OpenRaisesEndsLoop(w) ==
  /\ pc[w] = "open"
  /\ idx[w] <= Len(urns[w])
  /\ pc' = [pc EXCEPT ![w] = "idle"]
  /\ res' = [res EXCEPT ![w] = Append(@, "raised")]
  /\ loop' = [loop EXCEPT ![w].phase = "dead"]
  /\ UNCHANGED <<now, store, lock, flows, stats, force, urns, idx, obj, call,
                 config>>

\* OpenWithLock raises an exception that is not LockError (the record cannot
\* be read): no except clause of RunOnce matches, the for loop and RunOnce end
\* with the exception.  _RunLoop catches and logs it; any other caller gets
\* it.
OpenRaises(w) ==
  /\ pc[w] = "open"
  /\ idx[w] <= Len(urns[w])
  /\ pc' = [pc EXCEPT ![w] = "idle"]
  /\ res' = [res EXCEPT ![w] = Append(@, "raised")]
  /\ loop' = [loop EXCEPT ![w].failed = (loop[w].phase = "run")]
  /\ UNCHANGED <<now, store, lock, flows, stats, force, urns, idx, obj, call,
                 config>>

\* The steps of the CronWorker threads.
Bootstrap == \E w \in Workers : BootValidate(w)

BootstrapSchedule == \E w \in Workers : BootSchedule(w)

Tick == \E w \in Workers : LoopTick(w)

Wake == \E w \in Workers : LoopWake(w)

OpenFails == \E w \in Workers : OpenRaises(w)

\* The bootstrap of a CronWorker thread.
NextBoot ==
  \/ Bootstrap
  \/ BootstrapSchedule

SpecBoot == InitBoot /\ [][NextBoot]_vars

\* A CronWorker thread: bootstrap, then ticks; RunOnce is called by the tick.
NextLoop ==
  \/ Bootstrap
  \/ BootstrapSchedule
  \/ Tick
  \/ Wake
  \/ RunOnceReturn
  \/ TakeLease
  \/ OpenFails
  \/ RunKillOldFlows
  \/ RunReconcile
  \/ RunDueCheck
  \/ RunStart
  \/ RunStartRaises
  \/ FlowEnds
  \/ Advance

SpecLoop == InitLoop /\ [][NextLoop]_vars

\* The CronWorker thread is scheduled again and again, its sleep ends and the
\* calls it makes return.
SpecLoopFair ==
  /\ SpecLoop
  /\ WF_vars(Bootstrap \/ BootstrapSchedule \/ Tick \/ Wake)
  /\ WF_vars(RunOnceReturn \/ TakeLease \/ OpenFails \/ RunKillOldFlows
               \/ RunReconcile \/ RunDueCheck \/ RunStart \/ RunStartRaises)

\* --------------------------------------------- management and cleanup
\* CronJob.DeleteJobFlows(age) on job j: the child flows of the job that are
\* older than age, which are the flows up to some URN k, are deleted.
DeleteJobFlows ==
  \E j \in Jobs, k \in 1..Len(flows) :
    /\ \E h \in 1..k : flows[h].job = j /\ FlowState(h) # "DELETED"
    /\ flows' = [h \in 1..Len(flows) |->
                   IF h <= k /\ flows[h].job = j
                   THEN [flows[h] EXCEPT !.state = "DELETED"]
                   ELSE flows[h]]
    /\ UNCHANGED <<now, store, lock, stats, workerVars, call, config, loop>>

\* The arguments with which a registered job is scheduled again.
AdminArgs ==
  [flow_name : {"F"}, periodicity : {300}, lifetime : {300},
   start_time : {0, 300}, allow_overruns : {FALSE}]

\* ScheduleFlow called again under the name of a registered job.
Reschedule ==
  \E a \in AdminArgs, d \in BOOLEAN :
    ScheduleFlow(a, "A", TRUE, d) /\ UNCHANGED loop

\* One caller of RunOnce and one job, registered enabled or disabled.
InitAdmin ==
  /\ store \in [{"A"} -> {Registered(PassArgs, d) : d \in BOOLEAN}]
  /\ InitRest({1})

\* One job under ticks, forced runs, the registry's operations and the
\* deletion of old flows.
NextAdmin ==
  \/ Reschedule
  \/ EnableJob
  \/ DisableJob
  \/ WorkerTick
  \/ ForceRun
  \/ RunOnceReturn
  \/ TakeLease
  \/ RunKillOldFlows
  \/ RunReconcile
  \/ RunDueCheck
  \/ RunStart
  \/ RunStartRaises
  \/ FlowEnds
  \/ DeleteJobFlows
  \/ Advance

SpecAdmin == InitAdmin /\ [][NextAdmin]_vars

\* One worker that is master at every tick and two jobs with a lifetime,
\* overruns not allowed: A is enabled, B disabled.
InitLive ==
  /\ store = [j \in {"A", "B"} |-> Registered(PassArgs, j = "B")]
  /\ InitRest({1})

NextLive ==
  \/ WorkerTick
  \/ RunOnceReturn
  \/ TakeLease
  \/ RunKillOldFlows
  \/ RunReconcile
  \/ RunDueCheck
  \/ RunStart
  \/ RunStartRaises
  \/ FlowEnds
  \/ Advance

\* The worker keeps ticking, the calls it makes return and time passes; a
\* flow need not ever end.
SpecLive ==
  /\ InitLive
  /\ [][NextLive]_vars
  /\ WF_vars(WorkerTick)
  /\ WF_vars(RunOnceReturn \/ TakeLease \/ RunKillOldFlows \/ RunReconcile
               \/ RunDueCheck \/ RunStart \/ RunStartRaises)
  /\ WF_vars(Advance)

\* ================================================================ claims
\* Worker w is inside CronJob.Run (between OpenWithLock and the end of Run).
InRun(w) == pc[w] \in {"kill", "reconcile", "due", "start"}

\* Worker w takes the step of this transition.
Steps(w) == pc'[w] # pc[w] \/ idx'[w] # idx[w]

\* C1: at most one worker at a time is inside Run on the same job: the steps
\* of one worker's Run are never interleaved with another worker's Run on
\* that job.
MutualExclusion ==
  \A w1, w2 \in Workers :
    (w1 # w2 /\ InRun(w1) /\ InRun(w2)) => CurJob(w1) # CurJob(w2)

\* C2: a worker whose lease attempt finds the job leased to another worker
\* gets LockError at once: the step changes no job record, no lease, no flow
\* and no counter, raises nothing and moves the worker to the next URN of its
\* list; a worker enters Run only by taking a lease that was free, and then
\* holds it.
LockErrorIsSilent ==
  [][\A w \in Workers :
       (pc[w] = "open" /\ idx[w] <= Len(urns[w]) /\ Steps(w)) =>
         IF LockFree(CurJob(w), now)
         THEN /\ pc'[w] = "kill"
              /\ lock'[CurJob(w)].holder = w
              /\ \A v \in Workers \ {w} : pc'[v] = pc[v]
         ELSE /\ store' = store
              /\ lock' = lock
              /\ flows' = flows
              /\ stats' = stats
              /\ pc'[w] = "open"
              /\ urns'[w] = urns[w]
              /\ idx'[w] = idx[w] + 1
              /\ res'[w] = Append(res[w], "skipped")]_vars

\* C2, witness: a worker was refused the lease of its first job, which the
\* other worker still holds inside Run, and has gone on to run its second job.
SkippedThenRan ==
  \E w, v \in Workers :
    /\ w # v
    /\ Len(res[w]) = 2 /\ res[w][1] = "skipped" /\ res[w][2] = "started"
    /\ InRun(v) /\ CurJob(v) = urns[w][1]
    /\ lock[urns[w][1]].holder = v

\* C4: an exception raised by Run is caught at that job: the step counts one
\* internal error and the worker stays in the for loop at the next URN; and
\* RunOnce returns only when every URN of its list had its lease attempt.
RunErrorContained ==
  /\ [][\A w \in Workers :
          res'[w] = Append(res[w], "error") =>
            /\ stats'.cron_internal_error = stats.cron_internal_error + 1
            /\ pc'[w] = "open"
            /\ urns'[w] = urns[w]
            /\ idx'[w] = idx[w] + 1]_vars
  /\ [][\A w \in Workers :
          (pc[w] # "idle" /\ pc'[w] = "idle") =>
            Len(res[w]) = Len(urns[w])]_vars

\* C4, witness: Run raised for the first job of a pass and the second job of
\* the same pass was leased and run.
RanAfterError ==
  \E w \in Workers :
    /\ pc[w] = "open" /\ Len(urns[w]) = 2 /\ Len(res[w]) = 2
    /\ res[w][1] = "error" /\ res[w][2] = "started"
    /\ stats.cron_internal_error = 1

\* C3: no step starts a flow for a job whose stored disabled flag is true.
DisabledNeverStarts ==
  [][\A j \in Jobs :
       (Len(flows') > Len(flows) /\ flows'[Len(flows')].job = j)
         => ~store[j].disabled]_vars

\* C3 (amended): a Run that is not forced starts a flow only if the disabled
\* flag of the object it opened is false.
UnforcedStartsOnlyEnabled ==
  [][\A w \in Workers :
       (pc[w] = "start" /\ Steps(w) /\ Len(flows') > Len(flows))
         => (force[w] \/ ~obj[w].disabled)]_vars

\* C3, witness: a run that is not forced has left a disabled, never run job
\* alone.
DisabledSkipped ==
  \E w \in Workers :
    /\ ~force[w] /\ pc[w] = "open" /\ res[w] = <<"notdue">>
    /\ store[urns[w][1]].disabled
    /\ store[urns[w][1]].last_run_time = None

\* C5: the step of Run that calls KillOldFlows takes the timeout path exactly
\* when the opened job is running, its lifetime is set and
\* now - last_run_time > lifetime; it then ends the flow, records TIMEOUT,
\* deletes the flow URN, counts one timeout and returns without starting a
\* flow, forced or not; otherwise it changes nothing and Run goes on.
TimeoutPath ==
  [][\A w \in Workers :
       (pc[w] = "kill" /\ Steps(w)) =>
         LET j == CurJob(w)
             o == obj[w]
             h == o.current_flow_urn
         IN  IF /\ h # NoFlow
                /\ flows[h].state = "RUNNING"
                /\ o.cron_args.lifetime # 0
                /\ now - o.last_run_time > o.cron_args.lifetime
             THEN /\ flows'[h].state = "ERROR"
                  /\ Len(flows') = Len(flows)
                  /\ store'[j].last_run_status = "TIMEOUT"
                  /\ store'[j].current_flow_urn = NoFlow
                  /\ stats'.cron_job_timeout[j] = stats.cron_job_timeout[j] + 1
                  /\ pc'[w] = "open"
                  /\ idx'[w] = idx[w] + 1
                  /\ res'[w] = Append(res[w], "timeout")
             ELSE /\ flows' = flows
                  /\ stats' = stats
                  /\ pc'[w] = "reconcile"
                  /\ store'[j].last_run_status = store[j].last_run_status
                  /\ (h # NoFlow /\ flows[h].state = "RUNNING")
                       => store' = store]_vars

\* C5, witness: a forced Run has taken the timeout path.
ForcedRunTimedOut ==
  \E w \in Workers :
    /\ force[w] /\ pc[w] = "open" /\ res[w] = <<"timeout">>
    /\ store[urns[w][1]].last_run_status = "TIMEOUT"
    /\ store[urns[w][1]].current_flow_urn = NoFlow
    /\ stats.cron_job_timeout[urns[w][1]] = 1

\* C6: the step that starts a flow stores the URN StartFlow returned and
\* last_run_time = now; the reconcile step of a Run that finds the flow of
\* the opened job finished deletes the URN, records ERROR and counts a
\* failure if the flow ended in error and records OK otherwise, and raises
\* nothing.
RunBookkeeping ==
  [][\A w \in Workers :
       LET j == CurJob(w)
           h == obj[w].current_flow_urn
       IN  /\ (pc[w] = "start" /\ Steps(w) /\ Len(flows') = Len(flows) + 1)
                => /\ flows'[Len(flows')] = [job |-> j, state |-> "RUNNING"]
                   /\ store'[j].current_flow_urn = Len(flows')
                   /\ store'[j].last_run_time = now
           /\ (pc[w] = "reconcile" /\ Steps(w) /\ h # NoFlow
               /\ flows[h].state \in {"TERMINATED", "ERROR"})
                => /\ store'[j].current_flow_urn = NoFlow
                   /\ store'[j].last_run_status =
                        (IF flows[h].state = "ERROR" THEN "ERROR" ELSE "OK")
                   /\ stats'.cron_job_failure[j] =
                        stats.cron_job_failure[j]
                          + (IF flows[h].state = "ERROR" THEN 1 ELSE 0)
                   /\ stats'.cron_internal_error = stats.cron_internal_error
                   /\ pc'[w] = "due"]_vars

\* C6, witness: a started flow ended in error and was reconciled.
FailureReconciled ==
  \E j \in Jobs :
    /\ store[j].last_run_status = "ERROR"
    /\ store[j].current_flow_urn = NoFlow
    /\ store[j].last_run_time # None
    /\ stats.cron_job_failure[j] = 1

DueReference(o, t) ==
  /\ ~o.disabled
  /\ ~(o.last_run_time # None
       /\ t <= o.last_run_time + o.cron_args.periodicity)
  /\ ~(t < o.cron_args.start_time)
  /\ (o.cron_args.allow_overruns \/ o.current_flow_urn = NoFlow)

\* C7: DueToRun() returns the reference decision for every combination of
\* disabled, last_run_time, periodicity, start_time, allow_overruns, flow URN
\* and now.
DueToRunIsReference ==
  pc[1] = "called" => (res[1] = <<"due">> <=> DueReference(obj[1], now))

\* C7, witness: DueToRun() returned true for a job that ran before, whose
\* period has just elapsed and whose flow is still set, overruns allowed.
DueWithOverrun ==
  /\ pc[1] = "called" /\ res[1] = <<"due">>
  /\ obj[1].last_run_time = 300 /\ obj[1].cron_args.periodicity = 300
  /\ now = 900 /\ obj[1].current_flow_urn # NoFlow

\* C9: a ScheduleFlow call on a name whose record exists with a start_time
\* set leaves the stored start_time as it was; otherwise the stored
\* start_time becomes the one of the call.  No other record changes.
StartTimePreserved ==
  [][LET n == call'.urn
     IN  /\ IF store[n].exists /\ store[n].cron_args.start_time # 0
            THEN store'[n].cron_args.start_time
                   = store[n].cron_args.start_time
            ELSE store'[n].cron_args.start_time = call'.args.start_time
         /\ \A m \in Jobs \ {n} : store'[m] = store[m]]_vars

\* C9, witness: the last call passed a start_time other than the stored one,
\* which is the one of an earlier call.
RescheduledKeepsStart ==
  \E n \in Jobs :
    /\ call.urn = n /\ store[n].exists
    /\ call.args.start_time = 600
    /\ store[n].cron_args.start_time = 300

\* C10: a ScheduleFlow call without job_name returns the URN of no record
\* that existed before: what it changes in the store is a new record.
UnnamedScheduleCreates ==
  [][(~call'.named /\ store' # store) => ~store[call'.urn].exists]_vars

\* C11: the start time ScheduleSystemCronFlows computes for a built-in job
\* lies in [now, now + periodicity), the end excluded, when the class
\* randomizes its start time, and is now when it does not.
StartTimeInHalfOpenWindow ==
  call.urn # "" =>
    IF config.classes[call.urn].start_time_randomization
    THEN /\ now <= call.args.start_time
         /\ call.args.start_time < now + call.args.periodicity
    ELSE call.args.start_time = now

\* C11 (amended): the start time lies in [now, now + periodicity], both ends
\* included, when the class randomizes its start time, and is now when it
\* does not.
StartTimeInClosedWindow ==
  call.urn # "" =>
    IF config.classes[call.urn].start_time_randomization
    THEN /\ now <= call.args.start_time
         /\ call.args.start_time <= now + call.args.periodicity
    ELSE call.args.start_time = now

\* C11, witness: a class that randomizes was scheduled with a start time
\* strictly inside the window.
RandomizedStartInside ==
  /\ call.urn # ""
  /\ config.classes[call.urn].start_time_randomization
  /\ now < call.args.start_time
  /\ call.args.start_time < now + call.args.periodicity

\* C12: RunOnce is entered only by a tick whose IsMaster() check answered
\* true, and a worker is inside RunOnce only under such a tick; a tick whose
\* check answered false changes no job record, lease, flow or counter and
\* leaves the worker outside RunOnce.
NonLeaderDoesNothing ==
  /\ [][\A w \in Workers :
          (pc[w] = "idle" /\ pc'[w] # "idle") =>
            (loop[w].phase = "tick" /\ loop'[w].master)]_vars
  /\ [][\A w \in Workers :
          (loop[w].phase = "tick" /\ loop'[w].phase = "sleep") =>
            /\ ~loop'[w].master
            /\ store' = store /\ lock' = lock /\ flows' = flows
            /\ stats' = stats /\ pc'[w] = "idle"]_vars
  /\ [](\A w \in Workers : pc[w] # "idle" => loop[w].master)

\* C12, witness: a worker that is not master sleeps after its tick although
\* an enabled job that never ran is waiting.
NonLeaderSlept ==
  \E w \in Workers :
    /\ loop[w].phase = "sleep" /\ ~loop[w].master /\ pc[w] = "idle"
    /\ store["A"].exists /\ ~store["A"].disabled
    /\ store["A"].last_run_time = None
    /\ lock["A"].holder = 0

\* C13: the CronWorker thread ends only in its bootstrap; after a tick whose
\* RunOnce raised, the thread reaches the top of its loop again.
LoopSurvivesTickErrors ==
  /\ [](loop[1].phase = "dead" => ~EnabledAreSystemCronFlows)
  /\ [](loop[1].failed => <>(loop[1].phase = "tick"))

\* C13, witness: RunOnce raised in a tick and the thread is in its sleep.
FailedTickSlept ==
  /\ loop[1].failed /\ loop[1].phase = "run" /\ pc[1] = "idle"
  /\ res[1] # <<>> /\ res[1][Len(res[1])] = "raised"

\* C14: when an enabled name is no known SystemCronFlow, no step creates or
\* changes a job record, takes a lease, starts a flow or enters RunOnce, and
\* the thread never gets past its bootstrap.
BadConfigFailsBootstrap ==
  /\ [][~EnabledAreSystemCronFlows =>
          /\ store' = store /\ lock' = lock /\ flows' = flows
          /\ pc' = pc]_vars
  /\ [](~EnabledAreSystemCronFlows => loop[1].phase \in {"boot", "dead"})

\* C14, witness: the bootstrap has failed on an unknown name and the record
\* registered by an earlier start is as it was.
BootstrapFailed ==
  /\ ~EnabledAreSystemCronFlows
  /\ \E i \in 1..Len(config.enabled) :
       config.enabled[i] \notin DOMAIN config.classes
  /\ loop[1].phase = "dead"
  /\ store["A"].exists /\ store["A"].disabled

\* C17: a record that cannot be opened when its lease is taken is counted as
\* one internal error and the worker goes on to the next URN of its list.
RecordErrorsConfined ==
  [][\A w \in Workers :
       res'[w] = Append(res[w], "raised") =>
         /\ stats'.cron_internal_error = stats.cron_internal_error + 1
         /\ pc'[w] = "open"
         /\ idx'[w] = idx[w] + 1]_vars

\* The opened job of worker w has a flow URN set, a lifetime set and exceeded,
\* and its flow has ended.
EndedPastLifetime(w) ==
  LET o == obj[w]
      h == o.current_flow_urn
  IN  /\ h # NoFlow
      /\ flows[h].state \in {"TERMINATED", "ERROR"}
      /\ o.cron_args.lifetime # 0
      /\ now - o.last_run_time > o.cron_args.lifetime

HandleDroppedWithStatus ==
  [][\A j \in Jobs :
       (store[j].current_flow_urn # NoFlow
        /\ store'[j].current_flow_urn # store[j].current_flow_urn) =>
         /\ store'[j].current_flow_urn = NoFlow
         /\ \E w \in Workers :
              /\ Steps(w) /\ CurJob(w) = j
              /\ \/ /\ pc[w] = "kill"
                    /\ store'[j].last_run_status = "TIMEOUT"
                    /\ flows'[store[j].current_flow_urn].state = "ERROR"
                 \/ /\ pc[w] = "reconcile"
                    /\ store'[j].last_run_status \in {"OK", "ERROR"}]_vars

\* C18: last_run_time of a job changes only in a step that starts a flow for
\* that job, and then becomes the instant of the start.
LastRunTimeOnlyOnStart ==
  [][\A j \in Jobs :
       store'[j].last_run_time # store[j].last_run_time =>
         /\ Len(flows') = Len(flows) + 1
         /\ flows'[Len(flows')].job = j
         /\ store'[j].current_flow_urn = Len(flows')
         /\ store'[j].last_run_time = now]_vars

\* C18, witness: a job that ran at instant 0 and was timed out later has been
\* scheduled again with another start_time and is disabled.
RescheduledAfterRun ==
  /\ call.urn = "A" /\ call.args.start_time = 300
  /\ store["A"].cron_args.start_time = 300
  /\ store["A"].disabled
  /\ store["A"].last_run_time = 0
  /\ store["A"].last_run_status = "TIMEOUT"
  /\ now > 300

\* C19: of the flows started for a job that does not allow overruns, at most
\* one is running.
NoOverlap ==
  \A j \in Jobs :
    (store[j].exists /\ ~store[j].cron_args.allow_overruns) =>
      Cardinality({h \in 1..Len(flows) :
                     flows[h].job = j /\ flows[h].state = "RUNNING"}) <= 1

\* The last instant the clock reaches.
LastInstant == (MaxTime \div TickLen) * TickLen

\* C20: every run of job A whose lifetime ends before the clock's last
\* instant is closed: its flow URN leaves the record and the status is OK,
\* ERROR or TIMEOUT.
RunsEventuallyClosed ==
  \A h \in 1..MaxFlows :
    (/\ store["A"].current_flow_urn = h
     /\ LastInstant - store["A"].last_run_time
          > store["A"].cron_args.lifetime)
      ~> (/\ store["A"].current_flow_urn # h
          /\ store["A"].last_run_status \in {"OK", "ERROR", "TIMEOUT"})

\* C20, witness: a run of job A whose flow never ended was closed by the
\* timeout path.
RunClosedByTimeout ==
  /\ store["A"].current_flow_urn = NoFlow
  /\ store["A"].last_run_status = "TIMEOUT"
  /\ stats.cron_job_timeout["A"] = 1
  /\ stats.cron_job_failure["A"] = 0

====
